---- MODULE Spec2Model ----
(***************************************************************************)
(* The ClickAI proxy servers: server/server.js (POST /generate, no shared  *)
(* secret) and the later variant with the shared secret (POST /api/chat).  *)
(* One of the two is deployed (variable server); both keep the process-    *)
(* wide object incompleteResponses.  A request is handled in two steps,    *)
(* split at the await of the upstream call: everything up to issuing the   *)
(* call, and everything after the call settles.  In front of the handler   *)
(* sits the rate limiter apiLimiter, which counts the requests of every    *)
(* address.  The browser extension (chat window, background worker and     *)
(* content script) is modelled in front of server/server.js: the state of  *)
(* the window and every request it sends, from the fetch to its callback.  *)
(***************************************************************************)
EXTENDS Integers, Sequences, FiniteSets, TLC

VARIABLES
  server,               \* "generate" (server/server.js) or "chat" (/api/chat variant)
  EXTENSION_SECRET,     \* process.env.EXTENSION_SECRET as read at startup
  incompleteResponses,  \* the object: own keys -> stored value
  inflight,             \* upstream calls awaiting their result, one record per handler
  nreq,                 \* requests received so far
  nextId,               \* the next identifier not yet handed out
  now,                  \* Date.now(), in milliseconds
  hits,                 \* apiLimiter's store: address -> requests counted in its window
  trim,                 \* a call of the trimmer on its own: argument, result, caller's array
  reached,              \* address -> requests that reached the handler in its window (history)
  log,                  \* every step of every request, when watched (history)
  ev,                   \* what the last handler step did (history)
  alert,                \* AIResponseAlert's state: conversation, continueId, isContinued, isLoading
  aiResponseAlertRef,   \* window.aiResponseAlertRef and the #react-root element
  fetches,              \* the extension's requests on their way
  turns,                \* requests the user has caused so far
  lastTruncated         \* id of the truncated response whose text ends the conversation (history)

vars == <<server, EXTENSION_SECRET, incompleteResponses, inflight, nreq, nextId, now,
          hits, trim, reached, log, ev,
          alert, aiResponseAlertRef, fetches, turns, lastTruncated>>

----------------------------------------------------------------------------
\* Bounds of the model: the requests received, and the length of the lists
\* the trimmer is called with on its own.
MaxReqs == 2
MaxLen == 4

\* Program constants, and the step of the clock (longer than the hour).
MAX_TOKENS == 16385
RESPONSE_TOKENS == 1000
OneHourMs == 60 * 60 * 1000
TickMs == 61 * 60 * 1000
\* apiLimiter's options.
windowMs == 15 * 60 * 1000
max == 100

\* JavaScript's undefined / null where an identifier or a string is expected.
Undefined == "<undefined>"
Absent == 0
\* A key every plain object inherits from Object.prototype.
ConstructorKey == 0 - 1
ProtoKeys == {ConstructorKey}

\* Every request obtains at most one identifier.
Ids == 1..MaxReqs

----------------------------------------------------------------------------
\* Strings and the tokenizer.  encoder.encode(s).length is an external
\* library's result; a string is one of a few named pieces with a fixed length.
pieceLen(s) ==
  CASE s = "Hi" -> 1
    [] s = "long" -> 8000
    [] s = "huge" -> 16000
    [] s = "data:image/png;base64" -> 20000
    [] s = "part" -> 1000
    [] s = "longpart" -> 8000
    [] s = "[Continuing]" -> 8
    [] s = "part\npart" -> 2001
    [] s = "part\npart\npart" -> 3002
    [] OTHER -> 1

RECURSIVE SumLen(_)
SumLen(pieces) ==
  IF pieces = <<>> THEN 0 ELSE pieceLen(Head(pieces)) + SumLen(Tail(pieces))

\* server.js: encoder.encode(msg.content).length
encodeLen(content) == pieceLen(content)

RECURSIVE countTokens(_)
countTokens(messages) ==
  IF messages = <<>> THEN 0
  ELSE encodeLen(Head(messages).content) + countTokens(Tail(messages))

\* A trimmer that also trims a list that is exactly at the budget.
RECURSIVE trimHistoryStrict(_, _)
trimHistoryStrict(history, maxTokens) ==
  IF countTokens(history) >= maxTokens /\ Len(history) > 1
  THEN trimHistoryStrict(Tail(history), maxTokens)
  ELSE history

\* A trimmer that removes the newest message (pop) instead of the oldest.
RECURSIVE trimHistoryNewestFirst(_, _)
trimHistoryNewestFirst(history, maxTokens) ==
  IF countTokens(history) > maxTokens /\ Len(history) > 1
  THEN trimHistoryNewestFirst(SubSeq(history, 1, Len(history) - 1), maxTokens)
  ELSE history

\* A trimmer with an if in place of the while: it removes one message at most.
trimHistoryOnce(history, maxTokens) ==
  IF countTokens(history) > maxTokens /\ Len(history) > 1
  THEN Tail(history)
  ELSE history

\* A trimmer that stops one message early.
RECURSIVE trimHistoryKeepTwo(_, _)
trimHistoryKeepTwo(history, maxTokens) ==
  IF countTokens(history) > maxTokens /\ Len(history) > 2
  THEN trimHistoryKeepTwo(Tail(history), maxTokens)
  ELSE history

RECURSIVE trimHistory(_, _)
trimHistory(history, maxTokens) ==
  IF countTokens(history) > maxTokens /\ Len(history) > 1
  THEN trimHistory(Tail(history), maxTokens)
  ELSE history

----------------------------------------------------------------------------
\* Property lookup obj[key] on the plain object incompleteResponses.
HasOwn(store, key) == key \in DOMAIN store
LookupTruthy(store, key) == HasOwn(store, key) \/ key \in ProtoKeys

\* Responses: the status and the JSON body's fields (error is the string, as
\* the sequence of the pieces it is built from).  NoResponse: nothing was sent.
Response(status, error, text, id, isContinued) ==
  [status |-> status, error |-> error, response |-> text, id |-> id,
   isContinued |-> isContinued]
NoResponse == Response(0, <<>>, Undefined, Absent, FALSE)
ErrorResponse(status, error) == Response(status, error, Undefined, Absent, FALSE)

\* What the upstream call settles with.  id is the completion's identifier,
\* assigned by the upstream when it answers (Absent until then).
NoUpstream ==
  [kind |-> "none", status |-> 0, id |-> Absent, finish |-> "",
   content |-> Undefined, message |-> "", usage |-> FALSE]
Replies == {"part", "longpart"}
FinishReasons == {"stop", "length", "content_filter"}
ErrMessages == {"quota detail A", "quota detail B"}
\* A completion; usage = FALSE: the body carries no usage object.
UpstreamOk ==
  [kind : {"ok"}, status : {200}, id : {Absent}, finish : FinishReasons, content : Replies,
   message : {""}, usage : {TRUE}]
  \cup
  [kind : {"ok"}, status : {200}, id : {Absent}, finish : {"stop", "length"}, content : {"part"},
   message : {""}, usage : {FALSE}]
\* A rejected call: an HTTP error status with its body's error message, no
\* response at all, a timeout, or a 200 whose body has no choices.
UpstreamFail ==
  [kind : {"http"}, status : {400, 401, 429, 500}, id : {Absent}, finish : {""},
   content : {Undefined}, message : ErrMessages, usage : {FALSE}]
  \cup
  [kind : {"network", "timeout", "malformed"}, status : {0}, id : {Absent},
   finish : {""},
   content : {Undefined}, message : {"socket hang up"}, usage : {FALSE}]
Upstream == UpstreamOk \cup UpstreamFail

----------------------------------------------------------------------------
\* app.use(apiLimiter), installed before express.json() and the routes: every
\* request of an address is counted, and once the count of its window exceeds
\* max the request is answered 429 and goes no further.
ClientIp == "10.0.0.1"
Ips == {ClientIp, "10.0.0.2"}

limiterCount(counts, ip) == [counts EXCEPT ![ip] = @ + 1]

\* A limiter that compares the count before counting the request.
limiterAdmitsOneMore(counts, ip) == counts[ip] <= max

limiterAdmits(counts, ip) == counts[ip] + 1 <= max

\* The windows that started before a lapse of at least windowMs are over.
hitsAfter(counts, elapsedMs) ==
  IF elapsedMs >= windowMs THEN [ip \in Ips |-> 0] ELSE counts

TooManyRequests ==
  ErrorResponse(429, <<"Too many requests from this IP, please try again later.">>)

\* The record of the requests' steps, kept while log.watch: the store at the
\* start, what every request sent and what every settled call was answered.
noteReceive(l, rid, req, out, res) ==
  IF l.watch
  THEN [l EXCEPT !.calls = Append(@, [rid |-> rid, req |-> req, out |-> out, res |-> res])]
  ELSE l
noteReturn(l, rid, up, res) ==
  IF l.watch
  THEN [l EXCEPT !.returns = Append(@, [rid |-> rid, up |-> up, res |-> res])]
  ELSE l

----------------------------------------------------------------------------
\* Request bodies of POST /generate: { conversationHistory, continueId, image }.
NoImage == ""
NullEntry == [isnull |-> TRUE, sender |-> "", text |-> Undefined]
Entry(sender, text) == [isnull |-> FALSE, sender |-> sender, text |-> text]

\* The arrays a client sends: one short turn, two turns within the budget, two
\* and three turns that together exceed it, one turn that alone exceeds it
\* after a short one, the empty array, and arrays holding a null entry.
HistoryItems ==
  {<<>>,
   <<Entry("user", "Hi")>>,
   <<Entry("user", "Hi"), Entry("bot", "Hi")>>,
   <<Entry("user", "long"), Entry("bot", "long")>>,
   <<Entry("user", "long"), Entry("bot", "long"), Entry("user", "Hi")>>,
   <<Entry("user", "Hi"), Entry("user", "huge")>>,
   <<NullEntry>>,
   <<Entry("user", "Hi"), NullEntry>>}

Histories ==
  {[kind |-> "absent", items |-> <<>>], [kind |-> "notarray", items |-> <<>>]}
  \cup {[kind |-> "array", items |-> h] : h \in HistoryItems}

ContinueIds == {Absent, ConstructorKey} \cup Ids

GenerateRequests ==
  [image : {NoImage}, conversationHistory : Histories, continueId : ContinueIds]
  \cup
  [image : {"data:image/png;base64"},
   conversationHistory : {h \in Histories : Len(h.items) <= 1},
   continueId : ContinueIds]

\* The history steps record.
NoReq == [none |-> TRUE]
\* What a resumed handler still holds of its request.
Resumed(c) == [continueId |-> c.continueId, spliced |-> c.spliced]
\* ncalls: the upstream calls issued so far on behalf of request rid.
Event(rid, step, req, out, ncalls, up, res, pre, touched) ==
  [rid |-> rid, step |-> step, req |-> req, out |-> out, ncalls |-> ncalls,
   up |-> up, res |-> res, pre |-> pre, touched |-> touched]

\* A handler suspended at its await: what it reads again once the call
\* settles, and (history) the stored fragments it spliced into its request.
Call(rid, continueId, msgs, ncalls, touched, spliced) ==
  [rid |-> rid, continueId |-> continueId, msgs |-> msgs, ncalls |-> ncalls,
   touched |-> touched, spliced |-> spliced]

----------------------------------------------------------------------------
\* POST /generate, up to the await.

\* conversationHistory && Array.isArray(conversationHistory) && length > 0
HistoryUsable(req) ==
  req.conversationHistory.kind = "array" /\ Len(req.conversationHistory.items) > 0

\* A validation that forgets the length check.
ValidInputAnyArray(req) ==
  req.image # NoImage \/ req.conversationHistory.kind = "array"

ValidInput(req) == req.image # NoImage \/ HistoryUsable(req)

\* conversationHistory.map(msg => ({ role, content })): reading msg.sender of
\* a null entry throws.
MapThrows(req) ==
  /\ req.image = NoImage
  /\ HistoryUsable(req)
  /\ \E i \in 1..Len(req.conversationHistory.items) :
        req.conversationHistory.items[i].isnull

\* A mapping that passes the sender on as the role.
formatEntryKeepSender(msg) == [role |-> msg.sender, content |-> msg.text]

formatEntry(msg) ==
  [role |-> IF msg.sender = "user" THEN "user" ELSE "assistant", content |-> msg.text]

\* A handler that looks at conversationHistory first and at image only
\* when there is no usable history.
formatHistoryConversationFirst(req) ==
  IF HistoryUsable(req)
  THEN [i \in 1..Len(req.conversationHistory.items) |->
          formatEntry(req.conversationHistory.items[i])]
  ELSE <<[role |-> "user", content |-> req.image]>>

formatHistory(req) ==
  IF req.image # NoImage
  THEN <<[role |-> "user", content |-> req.image]>>
  ELSE [i \in 1..Len(req.conversationHistory.items) |->
          formatEntry(req.conversationHistory.items[i])]

\* continueId && incompleteResponses[continueId]
ContinueResolves(store, continueId) ==
  continueId # Absent /\ LookupTruthy(store, continueId)

\* incompleteResponses[continueId].map(...): an inherited member is no array.
SpliceThrows(store, req) ==
  ContinueResolves(store, req.continueId) /\ ~HasOwn(store, req.continueId)

\* The fragments the splice reads: those stored under continueId, if any.
splicedFragments(store, req) ==
  IF ContinueResolves(store, req.continueId) THEN store[req.continueId] ELSE <<>>

asAssistant(fragments) ==
  [i \in 1..Len(fragments) |-> [role |-> "assistant", content |-> fragments[i]]]

\* A splice that puts the stored fragments first.
spliceFragmentsFirst(store, req, formattedHistory) ==
  IF ContinueResolves(store, req.continueId)
  THEN asAssistant(store[req.continueId]) \o formattedHistory
  ELSE formattedHistory

spliceFragments(store, req, formattedHistory) ==
  IF ContinueResolves(store, req.continueId)
  THEN formattedHistory \o asAssistant(store[req.continueId])
  ELSE formattedHistory

outboundMessages(store, req) ==
  trimHistory(spliceFragments(store, req, formatHistory(req)),
              MAX_TOKENS - RESPONSE_TOKENS)

\* What becomes of an exception thrown by the async handler outside its try
\* block depends on the Express release installed: Express 4 ignores the
\* rejected promise and nothing is ever sent; Express 5 passes the rejection
\* to its default error handler, which answers 500.
Uncaught == {NoResponse, ErrorResponse(500, <<"Internal Server Error">>)}

InvalidInput ==
  ErrorResponse(400, <<"Invalid input. Expected conversation history or image.">>)

PostGenerate(ip, req) ==
  /\ server = "generate"
  /\ nreq < MaxReqs
  /\ limiterAdmits(hits, ip)
  /\ hits' = limiterCount(hits, ip)
  /\ reached' = limiterCount(reached, ip)
  /\ nreq' = nreq + 1
  /\ UNCHANGED <<server, EXTENSION_SECRET, incompleteResponses, nextId, now, trim>>
  /\ IF ~ValidInput(req)
     THEN /\ inflight' = inflight
          /\ log' = noteReceive(log, nreq + 1, req, <<>>, InvalidInput)
          /\ ev' = Event(nreq + 1, "receive", req, <<>>, 0, NoUpstream,
                         InvalidInput, incompleteResponses, FALSE)
     ELSE IF MapThrows(req) \/ SpliceThrows(incompleteResponses, req)
     THEN \* thrown outside the try block: the handler's promise rejects
          /\ inflight' = inflight
          /\ \E res \in Uncaught :
               /\ log' = noteReceive(log, nreq + 1, req, <<>>, res)
               /\ ev' = Event(nreq + 1, "receive", req, <<>>, 0, NoUpstream,
                              res, incompleteResponses, FALSE)
     ELSE /\ inflight' = inflight \cup
               {Call(nreq + 1, req.continueId, <<>>, 1, FALSE,
                     splicedFragments(incompleteResponses, req))}
          /\ log' = noteReceive(log, nreq + 1, req,
                                outboundMessages(incompleteResponses, req), NoResponse)
          /\ ev' = Event(nreq + 1, "receive", req,
                         outboundMessages(incompleteResponses, req), 1,
                         NoUpstream, NoResponse, incompleteResponses, FALSE)

----------------------------------------------------------------------------
\* POST /generate, after the await.

\* A lookup that takes the newest entry of the store for the one continued.
priorFragmentsOfNewest(store, continueId) ==
  IF DOMAIN store = {} THEN <<>>
  ELSE store[CHOOSE k \in DOMAIN store : \A j \in DOMAIN store : j <= k]

\* (incompleteResponses[continueId] || [])
priorFragments(store, continueId) ==
  IF HasOwn(store, continueId) THEN store[continueId] ELSE <<>>

\* A record that puts the new fragment before the earlier ones.
recordFragmentNewestFirst(store, responseId, continueId, responseContent) ==
  (responseId :> (<<responseContent>> \o priorFragments(store, continueId))) @@ store

\* A record filed under the request's continueId instead of the response id.
recordFragmentUnderContinueId(store, responseId, continueId, responseContent) ==
  (continueId :> Append(priorFragments(store, continueId), responseContent)) @@ store

recordFragment(store, responseId, continueId, responseContent) ==
  (responseId :> Append(priorFragments(store, continueId), responseContent)) @@ store

\* A handler that clears the entry it continued from when it records.
generateStoreFetchAndClear(store, c, up) ==
  IF up.kind = "ok" /\ up.finish = "length"
  THEN LET recorded == recordFragment(store, up.id, c.continueId, up.content)
       IN  [k \in DOMAIN recorded \ ({c.continueId} \ {up.id}) |-> recorded[k]]
  ELSE store

\* A handler that records every completion, truncated or not.
generateStoreAlways(store, c, up) ==
  IF up.kind = "ok"
  THEN recordFragment(store, up.id, c.continueId, up.content)
  ELSE store

generateStore(store, c, up) ==
  IF up.kind = "ok" /\ up.finish = "length"
  THEN recordFragment(store, up.id, c.continueId, up.content)
  ELSE store

\* A handler that takes every finish reason but "stop" for a truncation.
generateResponseNonStop(up) ==
  IF up.kind = "ok"
  THEN Response(200, <<>>, up.content, up.id, up.finish # "stop")
  ELSE ErrorResponse(500, <<"Error generating response">>)

generateResponse(up) ==
  IF up.kind = "ok"
  THEN Response(200, <<>>, up.content, up.id, up.finish = "length")
  ELSE ErrorResponse(500, <<"Error generating response">>)

\* The catch block answers; it issues no further call.
generateRetries(up) == 0

\* The upstream hands every completion an identifier of its own.
settled(up, id) == IF up.kind = "ok" THEN [up EXCEPT !.id = id] ELSE up

\* responseId is the identifier the upstream gave the completion.
PostGenerateResume(c, up, responseId) ==
  /\ server = "generate"
  /\ c \in inflight
  /\ inflight' = inflight \ {c}
  /\ incompleteResponses' =
       generateStore(incompleteResponses, c, settled(up, responseId))
  /\ nextId' = IF up.kind = "ok" THEN nextId + 1 ELSE nextId
  /\ log' = noteReturn(log, c.rid, settled(up, responseId),
                       generateResponse(settled(up, responseId)))
  /\ ev' = Event(c.rid, "return", Resumed(c), <<>>, c.ncalls + generateRetries(up),
                 settled(up, responseId), generateResponse(settled(up, responseId)),
                 incompleteResponses,
                 c.touched \/ incompleteResponses' # incompleteResponses)
  /\ UNCHANGED <<server, EXTENSION_SECRET, nreq, now, hits, trim, reached>>

----------------------------------------------------------------------------
\* The /api/chat variant.  A message content is a JavaScript string built by
\* concatenation: the sequence of its pieces.

\* encoder.encode(`${message.role}: ${message.content}`).length
encodeLenChat(message) ==
  pieceLen(message.role) + pieceLen(": ") + SumLen(message.content)

RECURSIVE countTokensChat(_)
countTokensChat(messages) ==
  IF messages = <<>> THEN 0
  ELSE encodeLenChat(Head(messages)) + countTokensChat(Tail(messages))

\* A loop that removes one message at a time (slice(1)).
RECURSIVE dropPairsOneByOne(_, _)
dropPairsOneByOne(systemMessage, conversationMessages) ==
  IF /\ Len(conversationMessages) > 2
     /\ countTokensChat(systemMessage \o conversationMessages)
          > MAX_TOKENS - RESPONSE_TOKENS
  THEN dropPairsOneByOne(systemMessage, Tail(conversationMessages))
  ELSE conversationMessages

RECURSIVE dropPairs(_, _)
dropPairs(systemMessage, conversationMessages) ==
  IF /\ Len(conversationMessages) > 2
     /\ countTokensChat(systemMessage \o conversationMessages)
          > MAX_TOKENS - RESPONSE_TOKENS
  THEN dropPairs(systemMessage,
                 SubSeq(conversationMessages, 3, Len(conversationMessages)))
  ELSE conversationMessages

trimConversation(messages) ==
  IF countTokensChat(messages) <= MAX_TOKENS - RESPONSE_TOKENS
  THEN messages
  ELSE LET hasSystem == messages[1].role = "system"
           systemMessage == IF hasSystem THEN <<messages[1]>> ELSE <<>>
           conversationMessages == IF hasSystem THEN Tail(messages) ELSE messages
       IN  systemMessage \o dropPairs(systemMessage, conversationMessages)

\* Request bodies of POST /api/chat: { messages, continueId }, and the
\* x-extension-secret header.  An empty role or content is a missing one.
NullMessage == [isnull |-> TRUE, role |-> "", content |-> <<>>]
Message(role, content) == [isnull |-> FALSE, role |-> role, content |-> content]
\* The arrays a client sends: a system prompt and a turn, two turns that
\* together exceed the budget, a system prompt and three such turns, the empty
\* array, and arrays holding an incomplete or a null entry.
ChatItems ==
  {<<>>,
   <<Message("system", <<"Hi">>), Message("user", <<"Hi">>)>>,
   <<Message("user", <<"long">>), Message("assistant", <<"long">>)>>,
   <<Message("system", <<"Hi">>), Message("user", <<"long">>),
     Message("assistant", <<"long">>), Message("user", <<"long">>)>>,
   <<Message("user", <<"huge">>)>>,
   <<Message("user", <<"Hi">>), Message("user", <<>>), NullMessage>>,
   <<NullMessage>>}

ChatHistories ==
  {[kind |-> "absent", items |-> <<>>], [kind |-> "notarray", items |-> <<>>]}
  \cup {[kind |-> "array", items |-> h] : h \in ChatItems}

Secrets == {"s3cret"}
HeaderSecrets == {Undefined, "s3cret", "wrong"}

ChatRequests ==
  [secret : HeaderSecrets \ {"wrong"}, messages : ChatHistories,
   continueId : ContinueIds]
  \cup
  [secret : {"wrong"}, messages : {h \in ChatHistories : Len(h.items) = 1},
   continueId : {Absent}]

\* The authentication middleware: headerSecret !== EXTENSION_SECRET
authRejects(req, configured) == req.secret # configured

\* !messages || !Array.isArray(messages) || messages.length === 0
MessagesUnusable(req) ==
  req.messages.kind # "array" \/ Len(req.messages.items) = 0

\* messages.find(msg => !msg.role || !msg.content): the first entry that is
\* null (reading null.role throws) or lacks a field decides.
BadAt(req, i) ==
  LET m == req.messages.items[i] IN m.isnull \/ m.role = "" \/ m.content = <<>>
FirstBad(req) ==
  IF \E i \in 1..Len(req.messages.items) : BadAt(req, i)
  THEN CHOOSE i \in 1..Len(req.messages.items) :
         BadAt(req, i) /\ \A j \in 1..(i - 1) : ~BadAt(req, j)
  ELSE 0
FindThrows(req) == FirstBad(req) # 0 /\ req.messages.items[FirstBad(req)].isnull
HasInvalidMessage(req) == FirstBad(req) # 0 /\ ~FindThrows(req)

asMessages(items) ==
  [i \in 1..Len(items) |-> [role |-> items[i].role, content |-> items[i].content]]

\* lastMessage.content += '\n\n[Continuing from previous response...]'
markContinuation(messages) ==
  IF messages # <<>> /\ messages[Len(messages)].role = "assistant"
  THEN [messages EXCEPT ![Len(messages)].content = Append(@, "[Continuing]")]
  ELSE messages

\* [...incompleteData.messages] of an inherited member throws.
ContinuationThrows(store, req) ==
  ContinueResolves(store, req.continueId) /\ ~HasOwn(store, req.continueId)

conversationFor(store, req) ==
  IF ContinueResolves(store, req.continueId)
  THEN markContinuation(store[req.continueId].messages)
  ELSE asMessages(req.messages.items)

\* delete incompleteResponses[continueId]
deleteEntry(store, key) == [k \in DOMAIN store \ {key} |-> store[k]]

storeAfterContinuation(store, req) ==
  IF ContinueResolves(store, req.continueId)
  THEN deleteEntry(store, req.continueId)
  ELSE store

InternalError == ErrorResponse(500, <<"Internal server error. Please try again later.">>)

\* What the handler answers before any upstream call, or NoResponse when it
\* goes on to the call.
chatEarlyResponse(store, req, configured) ==
  IF authRejects(req, configured)
  THEN ErrorResponse(403, <<"Unauthorized access">>)
  ELSE IF MessagesUnusable(req)
  THEN ErrorResponse(400, <<"Invalid request: messages array is required and cannot be empty">>)
  ELSE IF FindThrows(req)
  THEN InternalError
  ELSE IF HasInvalidMessage(req)
  THEN ErrorResponse(400, <<"Invalid message format: each message must have role and content">>)
  ELSE IF ContinuationThrows(store, req)
  THEN InternalError
  ELSE NoResponse

PostApiChat(ip, req) ==
  /\ server = "chat"
  /\ nreq < MaxReqs
  /\ limiterAdmits(hits, ip)
  /\ hits' = limiterCount(hits, ip)
  /\ reached' = limiterCount(reached, ip)
  /\ nreq' = nreq + 1
  /\ UNCHANGED <<server, EXTENSION_SECRET, nextId, now, trim>>
  /\ LET early == chatEarlyResponse(incompleteResponses, req, EXTENSION_SECRET)
         trimmedMessages ==
           trimConversation(conversationFor(incompleteResponses, req))
         store2 == storeAfterContinuation(incompleteResponses, req)
     IN  IF early # NoResponse
         THEN /\ inflight' = inflight
              /\ incompleteResponses' = incompleteResponses
              /\ log' = noteReceive(log, nreq + 1, req, <<>>, early)
              /\ ev' = Event(nreq + 1, "receive", req, <<>>, 0, NoUpstream,
                             early, incompleteResponses, FALSE)
         ELSE /\ incompleteResponses' = store2
              /\ log' = noteReceive(log, nreq + 1, req, trimmedMessages, NoResponse)
              /\ inflight' = inflight \cup
                   {Call(nreq + 1, Absent, trimmedMessages, 1,
                         store2 # incompleteResponses, <<>>)}
              /\ ev' = Event(nreq + 1, "receive", req, trimmedMessages, 1,
                             NoUpstream, NoResponse, incompleteResponses,
                             store2 # incompleteResponses)

----------------------------------------------------------------------------
\* POST /api/chat, after the await.

\* Entries older than one hour are dropped whenever a new one is stored.
cleanUp(store, clock) ==
  [k \in {id \in DOMAIN store : ~(store[id].timestamp < clock - OneHourMs)}
     |-> store[k]]

storeIncomplete(store, continueId_new, trimmedMessages, aiMessage, clock) ==
  cleanUp((continueId_new :>
             [messages |-> Append(trimmedMessages, aiMessage), timestamp |-> clock])
          @@ store, clock)

chatStore(store, c, up, continueId_new, clock) ==
  IF up.kind = "ok" /\ up.finish = "length"
  THEN storeIncomplete(store, continueId_new, c.msgs,
                       [role |-> "assistant", content |-> <<up.content>>], clock)
  ELSE store

\* The catch block's choice of status and message.
chatErrorResponse(up) ==
  IF up.kind = "http" /\ up.status = 401
  THEN ErrorResponse(500, <<"OpenAI API authentication failed. Please check your API key.">>)
  ELSE IF up.kind = "http" /\ up.status = 429
  THEN ErrorResponse(429, <<"OpenAI API rate limit exceeded. Please try again later.">>)
  ELSE IF up.kind = "http" /\ up.status >= 400 /\ up.status < 500
  THEN ErrorResponse(400, <<"OpenAI API error: ",
                             IF up.message = "" THEN "Invalid request" ELSE up.message>>)
  ELSE IF up.kind = "timeout"
  THEN ErrorResponse(504, <<"Request timeout. The AI service is taking too long to respond.">>)
  ELSE InternalError

chatResponse(up, continueId_new) ==
  IF up.kind = "ok" /\ up.usage
  THEN Response(200, <<>>, <<up.content>>,
                IF up.finish = "length" THEN continueId_new ELSE Absent,
                up.finish = "length")
  ELSE IF up.kind = "ok"
  THEN InternalError   \* usage.prompt_tokens of a missing usage throws
  ELSE chatErrorResponse(up)

\* The catch block answers; it issues no further call.
chatRetries(up) == 0

\* continueId_new = Math.random().toString(36)...: a new identifier, unlike
\* the upstream's own (which this variant never reads).
PostApiChatResume(c, up) ==
  /\ server = "chat"
  /\ c \in inflight
  /\ inflight' = inflight \ {c}
  /\ incompleteResponses' = chatStore(incompleteResponses, c, up, nextId, now)
  /\ nextId' = IF up.kind = "ok" /\ up.finish = "length" THEN nextId + 1 ELSE nextId
  /\ log' = noteReturn(log, c.rid, settled(up, MaxReqs + nextId), chatResponse(up, nextId))
  /\ ev' = Event(c.rid, "return", NoReq, <<>>, c.ncalls + chatRetries(up),
                 settled(up, MaxReqs + nextId), chatResponse(up, nextId),
                 incompleteResponses,
                 c.touched \/ incompleteResponses' # incompleteResponses)
  /\ UNCHANGED <<server, EXTENSION_SECRET, nreq, now, hits, trim, reached>>

\* Time passes.  Only the /api/chat variant reads the clock, and only to
\* compare it with the timestamps of stored entries: a step of the clock is
\* taken while some entry is not yet older than one hour.
Tick ==
  /\ server = "chat"
  /\ \E id \in DOMAIN incompleteResponses :
        ~(incompleteResponses[id].timestamp < now - OneHourMs)
  /\ now' = now + TickMs
  /\ hits' = hitsAfter(hits, TickMs)
  /\ reached' = hitsAfter(reached, TickMs)
  /\ UNCHANGED <<server, EXTENSION_SECRET, incompleteResponses, inflight, nreq,
                 nextId, trim, log, ev>>

\* A request beyond the limit: apiLimiter counts it and answers it itself;
\* express.json() and the routes never see it.
RateLimited(ip) ==
  /\ nreq < MaxReqs
  /\ ~limiterAdmits(hits, ip)
  /\ hits' = limiterCount(hits, ip)
  /\ nreq' = nreq + 1
  /\ ev' = Event(nreq + 1, "limited", NoReq, <<>>, 0, NoUpstream, TooManyRequests,
                 incompleteResponses, FALSE)
  /\ UNCHANGED <<server, EXTENSION_SECRET, incompleteResponses, inflight, nextId,
                 now, trim, reached, log>>

\* The window of an address ends: its count starts again.
WindowElapses(ip) ==
  /\ hits[ip] > 0
  /\ hits' = [hits EXCEPT ![ip] = 0]
  /\ reached' = [reached EXCEPT ![ip] = 0]
  /\ UNCHANGED <<server, EXTENSION_SECRET, incompleteResponses, inflight, nreq,
                 nextId, now, trim, log, ev>>

----------------------------------------------------------------------------
----------------------------------------------------------------------------
\* The trimmers called on their own: trimHistory(history, maxTokens) of
\* server.js and trimConversation(messages) of the /api/chat variant, whose
\* budget is always MAX_TOKENS - RESPONSE_TOKENS.  trim.messages is the array
\* as the caller passed it, trim.after the same array once the call returned,
\* trim.result what the call returned and trim.again what a second call, on
\* that result, returned.
SeqsUpTo(S, n) == UNION {[1..k -> S] : k \in 0..n}

TrimMessages ==
  [role : {"user", "assistant"}, content : {"Hi", "long"}]
  \cup {[role |-> "user", content |-> "huge"]}
TrimChatMessages ==
  [role : {"system", "user", "assistant"}, content : {<<"Hi">>, <<"long">>}]
  \cup {[role |-> "user", content |-> <<"huge">>]}
Budgets == {1, 8001, MAX_TOKENS - RESPONSE_TOKENS}

TrimCall(messages, maxTokens) ==
  [phase |-> "ready", messages |-> messages, maxTokens |-> maxTokens,
   after |-> messages, result |-> <<>>, again |-> <<>>]
NoTrim == [TrimCall(<<>>, 0) EXCEPT !.phase = "idle"]

\* history.shift() removes from the very array the caller passed, and
\* return history hands that array back.
argumentAfterTrimHistory(history, maxTokens) == trimHistory(history, maxTokens)

\* messages.slice(1), [...messages] and conversationMessages.slice(2) build
\* new arrays; the array passed is only read.
argumentAfterTrimConversation(messages) == messages

TrimHistoryCall ==
  /\ server = "generate"
  /\ trim.phase = "ready"
  /\ trim' = [trim EXCEPT
                !.phase = "once",
                !.result = trimHistory(trim.messages, trim.maxTokens),
                !.after = argumentAfterTrimHistory(trim.messages, trim.maxTokens)]
  /\ UNCHANGED <<server, EXTENSION_SECRET, incompleteResponses, inflight, nreq,
                 nextId, now, hits, reached, log, ev>>

TrimHistoryAgain ==
  /\ server = "generate"
  /\ trim.phase = "once"
  /\ trim' = [trim EXCEPT
                !.phase = "twice",
                !.again = trimHistory(trim.result, trim.maxTokens),
                !.after = argumentAfterTrimHistory(trim.after, trim.maxTokens)]
  /\ UNCHANGED <<server, EXTENSION_SECRET, incompleteResponses, inflight, nreq,
                 nextId, now, hits, reached, log, ev>>

TrimConversationCall ==
  /\ server = "chat"
  /\ trim.phase = "ready"
  /\ trim' = [trim EXCEPT
                !.phase = "once",
                !.result = trimConversation(trim.messages),
                !.after = argumentAfterTrimConversation(trim.messages)]
  /\ UNCHANGED <<server, EXTENSION_SECRET, incompleteResponses, inflight, nreq,
                 nextId, now, hits, reached, log, ev>>

TrimConversationAgain ==
  /\ server = "chat"
  /\ trim.phase = "once"
  /\ trim' = [trim EXCEPT
                !.phase = "twice",
                !.again = trimConversation(trim.result),
                !.after = argumentAfterTrimConversation(trim.after)]
  /\ UNCHANGED <<server, EXTENSION_SECRET, incompleteResponses, inflight, nreq,
                 nextId, now, hits, reached, log, ev>>

----------------------------------------------------------------------------
----------------------------------------------------------------------------
\* The extension: the chat window (src/Components/AIResponseAlert.jsx, shown
\* by ChatContent.jsx), the background worker (public/background.js) and the
\* content script (public/content.js).  They talk to POST /generate of
\* server/server.js.  A fetch is followed from the moment it is sent, through
\* the server's two steps, to the callback that handles its outcome.

\* The actions of the user that send a request.
MaxTurns == 3

\* useState defaults of AIResponseAlert.
NoAlert ==
  [conversation |-> <<>>, continueId |-> Absent, isContinued |-> FALSE,
   isLoading |-> FALSE]
\* No #react-root element and no ref.
NoRef == [root |-> "none", initialQuery |-> ""]

\* The texts of the extension.
NoResponseFromAI == "Error: No response from AI."
NoResponseFromAIBackground == "Error: No response from AI"
UnableToContact == "Error: Unable to contact AI server"
NO_TEXT_DETECTED == "[No text detected]"
NoTextInSnip == "Error: No text detected in the snip."
ExtractedInvalid == "Error: Extracted text is invalid."
UNEXPECTED_OCR_ERROR ==
  "Error: Unexpected error occurred during OCR processing. Please try again."
UnexpectedError == "Error: Unexpected error occurred."
\* content.js's own updateAIResponse calls chrome.tabs.sendMessage; a content
\* script has no chrome.tabs, so the call throws this TypeError, which the
\* window's unhandledrejection listener reports.
UnhandledRejection ==
  "Unhandled Rejection: Cannot read properties of undefined (reading 'sendMessage')"

\* useImperativeHandle: appendUserQuery and updateLastAssistantResponse.
appendUserQuery(a, query) ==
  [a EXCEPT !.conversation = Append(@, Entry("user", query)), !.isLoading = TRUE]

updateLastAssistantResponse(a, response) ==
  [a EXCEPT !.conversation = Append(@, Entry("assistant", response)),
            !.isLoading = FALSE]

\* The component once React has rendered it: the initialQuery effect.
mountedWith(initialQuery) ==
  IF initialQuery # ""
  THEN [NoAlert EXCEPT !.conversation = <<Entry("user", initialQuery)>>,
                       !.isLoading = TRUE]
  ELSE NoAlert

\* renderOrAppendQuery: append to the open window, or createAIResponseAlert,
\* whose render React carries out later (ref.current is null until then).
refAfterQuery(ref, newQuery) ==
  IF ref.root = "mounted" THEN ref
  ELSE [root |-> "rendering", initialQuery |-> newQuery]

alertAfterQuery(ref, a, newQuery) ==
  IF ref.root = "mounted" THEN appendUserQuery(a, newQuery) ELSE a

\* if (window.aiResponseAlertRef && window.aiResponseAlertRef.current)
\*   window.aiResponseAlertRef.current.updateLastAssistantResponse(response)
alertAfterResponse(ref, a, response) ==
  IF ref.root = "mounted" THEN updateLastAssistantResponse(a, response) ELSE a

\* The number of code fences in a text; the texts here carry one at most,
\* written <fence>.
fenceCount(text) == IF text = "<fence>part" THEN 1 ELSE 0
stripFence(text) == IF text = "<fence>part" THEN "part" ELSE text

mergeAssistantResponse(existingText, appendedText) ==
  IF fenceCount(existingText) % 2 = 1
  THEN existingText \o stripFence(appendedText)
  ELSE existingText \o "\n" \o appendedText

\* The body of a request, and a fetch: n numbers the fetches, origin is the
\* code that sent it, rid the number the server gives it once received.
Body(history, id) ==
  [image |-> NoImage, conversationHistory |-> [kind |-> "array", items |-> history],
   continueId |-> id]
Fetch(n, origin, body) ==
  [n |-> n, origin |-> origin, body |-> body, rid |-> 0, state |-> "sent",
   res |-> NoResponse]

\* response.json(): the limiter's 429 carries a plain text, not JSON.
jsonParses(res) == res.status # 429
\* fetch(...).then(response => response.json()) fulfilled with a body.
HasData(f) == f.state = "answered" /\ jsonParses(f.res)

\* The continueChat handler of background.js: what sendResponse is given.
NoData == [response |-> Undefined, id |-> Absent, isContinued |-> FALSE]
continueChatReply(f) ==
  IF HasData(f) /\ f.res.response # Undefined
  THEN [response |-> f.res.response, id |-> f.res.id, isContinued |-> f.res.isContinued]
  ELSE NoData

\* sendTextToAI of background.js: the text updateAIResponse is given.
sendTextToAIReply(f) ==
  IF ~HasData(f) THEN UnableToContact
  ELSE IF f.res.response # Undefined THEN f.res.response
  ELSE NoResponseFromAIBackground

\* The callback of handleSendMessage.
sendCallback(a, response) ==
  IF response.response # Undefined
  THEN [a EXCEPT !.conversation = Append(@, Entry("assistant", response.response)),
                 !.continueId = response.id,
                 !.isContinued = response.isContinued,
                 !.isLoading = FALSE]
  ELSE [a EXCEPT !.conversation = Append(@, Entry("assistant", NoResponseFromAI)),
                 !.isLoading = FALSE]

\* The callback of handleContinueGenerating.
continueCallback(a, response) ==
  IF response.response # Undefined
  THEN LET prev == a.conversation
           lastMsg == prev[Len(prev)]
       IN  [a EXCEPT
              !.conversation =
                 IF lastMsg.sender = "assistant"
                 THEN [prev EXCEPT ![Len(prev)] =
                         Entry("assistant",
                               mergeAssistantResponse(lastMsg.text, response.response))]
                 ELSE Append(prev, Entry("assistant", response.response)),
              !.continueId = response.id,
              !.isContinued = response.isContinued,
              !.isLoading = FALSE]
  ELSE [a EXCEPT !.conversation = Append(@, Entry("assistant", NoResponseFromAI)),
                 !.continueId = Absent,
                 !.isContinued = FALSE,
                 !.isLoading = FALSE]

\* ChatContent: {isContinued && !isLoading && <Button>Continue Generating</Button>}
ContinueOffered ==
  aiResponseAlertRef.root = "mounted" /\ alert.isContinued /\ ~alert.isLoading

\* The identifier of the truncated response whose text ends a conversation
\* that response ends (history).
truncatedId(response) == IF response.isContinued THEN response.id ELSE Absent

ServerIdle ==
  UNCHANGED <<server, EXTENSION_SECRET, incompleteResponses, inflight, nreq, nextId,
              now, hits, trim, reached, log, ev>>

\* The floating button: createAIResponseAlert().
OpenChat ==
  /\ aiResponseAlertRef.root = "none"
  /\ aiResponseAlertRef' = [root |-> "rendering", initialQuery |-> ""]
  /\ UNCHANGED <<alert, fetches, turns, lastTruncated>>
  /\ ServerIdle

\* React renders the window; the ref now points at the component.
Mount ==
  /\ aiResponseAlertRef.root = "rendering"
  /\ aiResponseAlertRef' = [aiResponseAlertRef EXCEPT !.root = "mounted"]
  /\ alert' = mountedWith(aiResponseAlertRef.initialQuery)
  /\ lastTruncated' = Absent
  /\ UNCHANGED <<fetches, turns>>
  /\ ServerIdle

\* handleSendMessage with userInput trimmed and not empty.
handleSendMessage(followUp) ==
  /\ aiResponseAlertRef.root = "mounted"
  /\ turns < MaxTurns
  /\ LET updated == Append(alert.conversation, Entry("user", followUp))
     IN  /\ alert' = [alert EXCEPT !.conversation = updated, !.isLoading = TRUE]
         /\ fetches' = fetches \cup {Fetch(turns + 1, "send", Body(updated, Absent))}
  /\ turns' = turns + 1
  /\ lastTruncated' = Absent
  /\ UNCHANGED aiResponseAlertRef
  /\ ServerIdle

\* A click on the button ChatContent offers.
handleContinueGenerating ==
  /\ ContinueOffered
  /\ turns < MaxTurns
  /\ alert' = [alert EXCEPT !.isLoading = TRUE]
  /\ fetches' = fetches \cup
       {Fetch(turns + 1, "continue", Body(alert.conversation, alert.continueId))}
  /\ turns' = turns + 1
  /\ UNCHANGED <<aiResponseAlertRef, lastTruncated>>
  /\ ServerIdle

\* handleCaptureText of background.js: sendNewUserQuery, which the content
\* script passes to renderOrAppendQuery, and sendTextToAI.
handleCaptureText(selectedText) ==
  /\ turns < MaxTurns
  /\ aiResponseAlertRef' = refAfterQuery(aiResponseAlertRef, selectedText)
  /\ alert' = alertAfterQuery(aiResponseAlertRef, alert, selectedText)
  /\ fetches' = fetches \cup
       {Fetch(turns + 1, "menu", Body(<<Entry("user", selectedText)>>, Absent))}
  /\ turns' = turns + 1
  /\ lastTruncated' = Absent
  /\ ServerIdle

\* What the OCR of a snipped area comes to: no text, a text of one character,
\* a text, or an error of Tesseract.
OcrOutcomes == {"none", "short", "text", "error"}
ocrQuery(outcome) ==
  CASE outcome = "none" -> NO_TEXT_DETECTED
    [] outcome = "short" -> "H"
    [] outcome = "text" -> "Hi"
    [] OTHER -> UNEXPECTED_OCR_ERROR
ocrMessage(outcome) ==
  CASE outcome = "none" -> NoTextInSnip
    [] outcome = "short" -> ExtractedInvalid
    [] OTHER -> UnexpectedError

\* onComplete of launchSnippingTool, from the OCR's result on: the query is
\* shown; without a usable text the error follows at once, and with one the
\* text is sent to the server.
launchSnippingTool(outcome) ==
  /\ turns < MaxTurns
  /\ aiResponseAlertRef' = refAfterQuery(aiResponseAlertRef, ocrQuery(outcome))
  /\ IF outcome = "text"
     THEN /\ alert' = alertAfterQuery(aiResponseAlertRef, alert, ocrQuery(outcome))
          /\ fetches' = fetches \cup
               {Fetch(turns + 1, "ocr", Body(<<Entry("user", ocrQuery(outcome))>>, Absent))}
     ELSE /\ alert' = alertAfterResponse(aiResponseAlertRef',
                        alertAfterQuery(aiResponseAlertRef, alert, ocrQuery(outcome)),
                        ocrMessage(outcome))
          /\ fetches' = fetches
  /\ turns' = turns + 1
  /\ lastTruncated' = Absent
  /\ ServerIdle

\* The request does not reach the server: fetch rejects.
FetchFails(f) ==
  /\ f.state = "sent"
  /\ fetches' = (fetches \ {f}) \cup {[f EXCEPT !.state = "failed"]}
  /\ UNCHANGED <<alert, aiResponseAlertRef, turns, lastTruncated>>
  /\ ServerIdle

\* The server receives the request: its handler runs up to the await, or
\* answers at once.
ServerReceives(f) ==
  /\ f.state = "sent"
  /\ PostGenerate(ClientIp, f.body)
  /\ fetches' = (fetches \ {f}) \cup
       {[f EXCEPT !.rid = nreq + 1,
                  !.state = IF ev'.ncalls = 1 THEN "atServer"
                            ELSE IF ev'.res = NoResponse THEN "hung" ELSE "answered",
                  !.res = ev'.res]}
  /\ UNCHANGED <<alert, aiResponseAlertRef, turns, lastTruncated>>

\* The upstream call of the request settles and the server answers.
ServerAnswers(f, up) ==
  /\ f.state = "atServer"
  /\ \E c \in inflight :
        /\ c.rid = f.rid
        /\ PostGenerateResume(c, up, nextId)
  /\ fetches' = (fetches \ {f}) \cup {[f EXCEPT !.state = "answered", !.res = ev'.res]}
  /\ UNCHANGED <<alert, aiResponseAlertRef, turns, lastTruncated>>

\* The fetch has settled and the code that sent it handles the outcome.  The
\* render of a window just created is a task queued before any fetch settles.
continueChatCallback(f) ==
  /\ f.origin \in {"send", "continue"}
  /\ f.state \in {"answered", "failed"}
  /\ aiResponseAlertRef.root # "rendering"
  /\ alert' = IF f.origin = "send" THEN sendCallback(alert, continueChatReply(f))
              ELSE continueCallback(alert, continueChatReply(f))
  /\ lastTruncated' = truncatedId(continueChatReply(f))
  /\ fetches' = fetches \ {f}
  /\ UNCHANGED <<aiResponseAlertRef, turns>>
  /\ ServerIdle

\* sendTextToAI settles: updateAIResponse, which the content script hands to
\* the window when there is one.
sendTextToAICallback(f) ==
  /\ f.origin = "menu"
  /\ f.state \in {"answered", "failed"}
  /\ aiResponseAlertRef.root # "rendering"
  /\ alert' = alertAfterResponse(aiResponseAlertRef, alert, sendTextToAIReply(f))
  /\ lastTruncated' = Absent
  /\ fetches' = fetches \ {f}
  /\ UNCHANGED <<aiResponseAlertRef, turns>>
  /\ ServerIdle

\* The fetch of launchSnippingTool settles.  Its catch calls content.js's
\* updateAIResponse, which throws; the rejection has no handler, and the
\* unhandledrejection listener shows its message as a query and as a response.
snipFetchCallback(f) ==
  /\ f.origin = "ocr"
  /\ f.state \in {"answered", "failed"}
  /\ aiResponseAlertRef.root # "rendering"
  /\ IF HasData(f)
     THEN /\ alert' = alertAfterResponse(aiResponseAlertRef, alert,
                        IF f.res.response # Undefined THEN f.res.response
                        ELSE NoResponseFromAIBackground)
          /\ aiResponseAlertRef' = aiResponseAlertRef
     ELSE /\ aiResponseAlertRef' = refAfterQuery(aiResponseAlertRef, UnhandledRejection)
          /\ alert' = alertAfterResponse(aiResponseAlertRef',
                        alertAfterQuery(aiResponseAlertRef, alert, UnhandledRejection),
                        UnhandledRejection)
  /\ lastTruncated' = Absent
  /\ fetches' = fetches \ {f}
  /\ UNCHANGED turns
  /\ ServerIdle

\* The extension before its first use, and left alone.
ChatIdle ==
  /\ alert = NoAlert
  /\ aiResponseAlertRef = NoRef
  /\ fetches = {}
  /\ turns = 0
  /\ lastTruncated = Absent
ChatUnchanged == UNCHANGED <<alert, aiResponseAlertRef, fetches, turns, lastTruncated>>

----------------------------------------------------------------------------
\* No record kept.
NoLog == [watch |-> FALSE, store0 |-> <<>>, calls |-> <<>>, returns |-> <<>>]

\* The process after app.listen.
Started ==
  /\ server \in {"generate", "chat"}
  /\ EXTENSION_SECRET \in (IF server = "chat" THEN Secrets \cup {Undefined} ELSE {Undefined})
  /\ incompleteResponses = <<>>
  /\ inflight = {}
  /\ nreq = 0
  /\ nextId = 1
  /\ now = 0
  /\ log = NoLog
  /\ ev = Event(0, "init", NoReq, <<>>, 0, NoUpstream, NoResponse, <<>>, FALSE)
  /\ ChatIdle

Init ==
  /\ Started
  /\ trim = NoTrim
  /\ hits = [ip \in Ips |-> 0]
  /\ reached = hits

\* One client; every completion gets an identifier of its own.
Next ==
  \/ \E req \in GenerateRequests : PostGenerate(ClientIp, req) /\ ChatUnchanged
  \/ \E c \in inflight : \E up \in Upstream : PostGenerateResume(c, up, nextId) /\ ChatUnchanged
  \/ \E req \in ChatRequests : PostApiChat(ClientIp, req) /\ ChatUnchanged
  \/ \E c \in inflight : \E up \in Upstream : PostApiChatResume(c, up) /\ ChatUnchanged
  \/ Tick /\ ChatUnchanged

Spec == Init /\ [][Next]_vars

----------------------------------------------------------------------------
\* The rate limiter at work.  The process has served, in the current window
\* of each address, none, max - 1 or max requests that the validation
\* answered (they leave nothing behind but the limiter's count); two
\* addresses then send requests.
RateRequests ==
  {r \in GenerateRequests :
     /\ r.image = NoImage
     /\ r.conversationHistory.items \in {<<>>, <<Entry("user", "Hi")>>}
     /\ r.continueId \in {Absent, 1}}
RateChatRequests ==
  {r \in ChatRequests :
     /\ r.messages.items \in
          {<<>>, <<Message("system", <<"Hi">>), Message("user", <<"Hi">>)>>,
           <<Message("user", <<"huge">>)>>}
     /\ r.continueId \in {Absent, 1}}

InitRate ==
  /\ Started
  /\ trim = NoTrim
  /\ hits \in [Ips -> {0, max - 1, max}]
  /\ reached = hits

NextRate ==
  \/ \E ip \in Ips : \E req \in RateRequests : PostGenerate(ip, req) /\ ChatUnchanged
  \/ \E c \in inflight : \E up \in Upstream : PostGenerateResume(c, up, nextId) /\ ChatUnchanged
  \/ \E ip \in Ips : \E req \in RateChatRequests : PostApiChat(ip, req) /\ ChatUnchanged
  \/ \E c \in inflight : \E up \in Upstream : PostApiChatResume(c, up) /\ ChatUnchanged
  \/ Tick /\ ChatUnchanged
  \/ \E ip \in Ips : RateLimited(ip) /\ ChatUnchanged
  \/ \E ip \in Ips : WindowElapses(ip) /\ ChatUnchanged

SpecRate == InitRate /\ [][NextRate]_vars

----------------------------------------------------------------------------
\* The trimmers on every list of up to MaxLen messages.
InitTrim ==
  /\ Started
  /\ hits = [ip \in Ips |-> 0]
  /\ reached = hits
  /\ trim \in
       IF server = "generate"
       THEN {TrimCall(m, b) : m \in SeqsUpTo(TrimMessages, MaxLen), b \in Budgets}
       ELSE {TrimCall(m, MAX_TOKENS - RESPONSE_TOKENS) :
               m \in SeqsUpTo(TrimChatMessages, MaxLen)}

NextTrim ==
  \/ TrimHistoryCall /\ ChatUnchanged
  \/ TrimHistoryAgain /\ ChatUnchanged
  \/ TrimConversationCall /\ ChatUnchanged
  \/ TrimConversationAgain /\ ChatUnchanged

SpecTrim == InitTrim /\ [][NextTrim]_vars

----------------------------------------------------------------------------
\* Two requests to /generate at the same time, watched.  The store is empty
\* or holds the entry of an earlier truncated response; the upstream's
\* identifiers are whatever the upstream answers, equal ones included.
RaceIds == 1..3
RaceStores == {<<>>, 1 :> <<"part">>}
RaceRequests ==
  {r \in GenerateRequests :
     /\ r.image = NoImage
     /\ r.conversationHistory.kind = "array"
     /\ r.conversationHistory.items \in
          {<<Entry("user", "Hi")>>, <<Entry("user", "long"), Entry("bot", "long")>>}
     /\ r.continueId \in {Absent} \cup RaceIds}
RaceUpstream ==
  {up \in Upstream :
     \/ up.kind = "ok" /\ up.usage /\ up.finish \in {"stop", "length"}
     \/ up.kind = "network"}

InitRace ==
  /\ server = "generate"
  /\ EXTENSION_SECRET = Undefined
  /\ incompleteResponses \in RaceStores
  /\ inflight = {}
  /\ nreq = MaxReqs - 2
  /\ nextId = 1 + Cardinality(DOMAIN incompleteResponses)
  /\ now = 0
  /\ hits = [ip \in Ips |-> 0]
  /\ reached = hits
  /\ trim = NoTrim
  /\ log = [NoLog EXCEPT !.watch = TRUE, !.store0 = incompleteResponses]
  /\ ev = Event(0, "init", NoReq, <<>>, 0, NoUpstream, NoResponse, <<>>, FALSE)
  /\ ChatIdle

NextRace ==
  \/ \E req \in RaceRequests : PostGenerate(ClientIp, req) /\ ChatUnchanged
  \/ \E c \in inflight : \E up \in RaceUpstream : \E responseId \in RaceIds :
        PostGenerateResume(c, up, responseId) /\ ChatUnchanged

SpecRace == InitRace /\ [][NextRace]_vars

----------------------------------------------------------------------------
\* Two requests, one after the other or at the same time, watched, on either
\* server.  The store is empty or holds the entry of an earlier truncated
\* response, and every completion gets an identifier of its own.
PairChatStores ==
  {<<>>,
   1 :> [messages |-> <<[role |-> "system", content |-> <<"Hi">>],
                        [role |-> "user", content |-> <<"Hi">>],
                        [role |-> "assistant", content |-> <<"part">>]>>,
         timestamp |-> 0]}
PairChatRequests ==
  {r \in ChatRequests :
     /\ r.secret = "s3cret"
     /\ r.messages.items = <<Message("system", <<"Hi">>), Message("user", <<"Hi">>)>>
     /\ r.continueId \in {Absent, 1}}

InitPair ==
  /\ server \in {"generate", "chat"}
  /\ EXTENSION_SECRET = (IF server = "chat" THEN "s3cret" ELSE Undefined)
  /\ incompleteResponses \in (IF server = "chat" THEN PairChatStores ELSE RaceStores)
  /\ inflight = {}
  /\ nreq = MaxReqs - 2
  /\ nextId = 1 + Cardinality(DOMAIN incompleteResponses)
  /\ now = 0
  /\ hits = [ip \in Ips |-> 0]
  /\ reached = hits
  /\ trim = NoTrim
  /\ log = [NoLog EXCEPT !.watch = TRUE, !.store0 = incompleteResponses]
  /\ ev = Event(0, "init", NoReq, <<>>, 0, NoUpstream, NoResponse, <<>>, FALSE)
  /\ ChatIdle

NextPair ==
  \/ \E req \in RaceRequests : PostGenerate(ClientIp, req) /\ ChatUnchanged
  \/ \E c \in inflight : \E up \in RaceUpstream : PostGenerateResume(c, up, nextId) /\ ChatUnchanged
  \/ \E req \in PairChatRequests : PostApiChat(ClientIp, req) /\ ChatUnchanged
  \/ \E c \in inflight : \E up \in RaceUpstream : PostApiChatResume(c, up) /\ ChatUnchanged
  \/ Tick /\ ChatUnchanged

SpecPair == InitPair /\ [][NextPair]_vars

----------------------------------------------------------------------------
\* The extension in front of server/server.js.  The upstream answers "part",
\* complete or truncated, or the call fails.
ChatTexts == {"Hi"}
ChatUpstream ==
  {up \in Upstream :
     \/ up.kind = "ok" /\ up.usage /\ up.finish \in {"stop", "length"} /\ up.content = "part"
     \/ up.kind = "network"}

InitChat ==
  /\ Init
  /\ server = "generate"

UserActs ==
  \/ OpenChat
  \/ \E followUp \in ChatTexts : handleSendMessage(followUp)
  \/ handleContinueGenerating
  \/ \E selectedText \in ChatTexts : handleCaptureText(selectedText)
  \/ \E outcome \in OcrOutcomes : launchSnippingTool(outcome)

ProgramActs ==
  \/ Mount
  \/ \E f \in fetches : FetchFails(f)
  \/ \E f \in fetches : ServerReceives(f)
  \/ \E f \in fetches : \E up \in ChatUpstream : ServerAnswers(f, up)
  \/ \E f \in fetches : continueChatCallback(f)
  \/ \E f \in fetches : sendTextToAICallback(f)
  \/ \E f \in fetches : snipFetchCallback(f)

NextChat == UserActs \/ ProgramActs

SpecChat == InitChat /\ [][NextChat]_vars

\* Every render React has scheduled is carried out, every fetch settles and
\* every settled fetch is handled; the user may stop at any time.
SpecChatFair == SpecChat /\ WF_vars(ProgramActs)


----------------------------------------------------------------------------
\* Properties.

Budget == MAX_TOKENS - RESPONSE_TOKENS

\* The last step issued an upstream call; ev.out is the list it carries.
CallIssued == ev.step = "receive" /\ ev.ncalls = 1
\* The last step answered a settled upstream call.
Returned == ev.step = "return"
Succeeded == Returned /\ ev.res.status = 200

outboundTokens ==
  IF server = "generate" THEN countTokens(ev.out) ELSE countTokensChat(ev.out)

afterSystem(messages) ==
  IF messages # <<>> /\ messages[1].role = "system" THEN Tail(messages) ELSE messages

C2_IsContinuedIffLength ==
  Succeeded => (ev.res.isContinued <=> ev.up.finish = "length")

\* A completion that ended for another reason than "stop" or "length" was
\* answered with isContinued false.
C2_Witness ==
  /\ Succeeded
  /\ server = "generate"
  /\ ev.up.finish = "content_filter"
  /\ ~ev.res.isContinued

\* C3: when a success response is returned, the store holds an entry under
\* the returned id exactly when isContinued is true.
C3_EntryIffContinued ==
  Succeeded => (HasOwn(incompleteResponses, ev.res.id) <=> ev.res.isContinued)

\* A complete response was returned while the store held entries of earlier
\* truncated ones, none of them under the returned id.
C3_Witness ==
  /\ Succeeded
  /\ server = "generate"
  /\ ~ev.res.isContinued
  /\ DOMAIN incompleteResponses # {}
  /\ ~HasOwn(incompleteResponses, ev.res.id)

IsSuffix(a, b) == Len(a) <= Len(b) /\ a = SubSeq(b, Len(b) - Len(a) + 1, Len(b))

\* The last step issued the call of a request whose continueId named an entry.
Continuing == CallIssued /\ HasOwn(ev.pre, ev.req.continueId)

\* The stored partial text, as assistant messages, and the messages the client
\* supplied with the request.
storedPartial ==
  IF server = "generate"
  THEN [i \in 1..Len(ev.pre[ev.req.continueId]) |->
          [role |-> "assistant", content |-> ev.pre[ev.req.continueId][i]]]
  ELSE LET stored == ev.pre[ev.req.continueId].messages
       IN  <<stored[Len(stored)]>>
clientSupplied ==
  IF server = "generate" THEN formatHistory(ev.req)
  ELSE [i \in 1..Len(ev.req.messages.items) |->
          [role |-> ev.req.messages.items[i].role,
           content |-> ev.req.messages.items[i].content]]

\* C4 as claimed: the outbound list of a continuation includes the stored
\* partial text as assistant messages, placed after the client's messages.
C4_StoredTextAfterClientMessages ==
  Continuing =>
    \E k \in 1..(Len(clientSupplied) + 1) :
      ev.out = SubSeq(clientSupplied, k, Len(clientSupplied)) \o storedPartial

\* The stored conversation of /api/chat with the continuation marker appended
\* to its last message.
storedMarked ==
  LET stored == ev.pre[ev.req.continueId].messages
  IN  [stored EXCEPT ![Len(stored)].content = Append(@, "[Continuing]")]

\* C4 as amended.  /generate sends a suffix of the client's messages followed
\* by the stored fragments as assistant messages: it ends with the newest
\* fragment and holds every fragment, after what is left of the client's
\* messages, unless the fragments alone exceed the budget.  /api/chat sends
\* the stored conversation instead of the request's messages, trimmed, its
\* last message being the stored partial assistant text with a continuation
\* marker appended.
C4_ContinuationOutbound ==
  Continuing =>
    IF server = "generate"
    THEN /\ IsSuffix(ev.out, clientSupplied \o storedPartial)
         /\ ev.out[Len(ev.out)] = storedPartial[Len(storedPartial)]
         /\ countTokens(storedPartial) <= Budget =>
              \E k \in 1..(Len(clientSupplied) + 1) :
                ev.out = SubSeq(clientSupplied, k, Len(clientSupplied)) \o storedPartial
    ELSE /\ IsSuffix(afterSystem(ev.out), afterSystem(storedMarked))
         /\ storedMarked[1].role = "system" => ev.out[1] = storedMarked[1]
         /\ ev.out[Len(ev.out)].role = "assistant"
         /\ ev.out[Len(ev.out)] = storedMarked[Len(storedMarked)]

\* A continuation went out with the client's messages followed by the
\* stored fragment.
C4_Witness ==
  /\ Continuing
  /\ server = "generate"
  /\ ev.out = clientSupplied \o storedPartial
  /\ Len(storedPartial) >= 1

\* C5: a /generate request with a missing, non-array or empty
\* conversationHistory and no image is answered 400 "Invalid input", issues no
\* upstream call and leaves the store unchanged.
C5_InvalidInputRejected ==
  ( /\ server = "generate"
    /\ ev.step = "receive"
    /\ ev.req.image = NoImage
    /\ \/ ev.req.conversationHistory.kind # "array"
       \/ ev.req.conversationHistory.items = <<>> )
  => /\ ev.res.status = 400
     /\ ev.res.error = <<"Invalid input. Expected conversation history or image.">>
     /\ ev.ncalls = 0
     /\ \A c \in inflight : c.rid # ev.rid
     /\ incompleteResponses = ev.pre

\* An empty array was rejected while the store held an entry.
C5_Witness ==
  /\ server = "generate"
  /\ ev.step = "receive"
  /\ ev.req.image = NoImage
  /\ ev.req.conversationHistory.kind = "array"
  /\ ev.req.conversationHistory.items = <<>>
  /\ ev.res.status = 400
  /\ DOMAIN incompleteResponses # {}

\* The upstream call of the last step's request ended with finish_reason "stop".
Stopped == Succeeded /\ ev.up.finish = "stop"

\* C6 as claimed: on finish_reason "stop" the response has isContinued false
\* and the upstream's id, and the request left the store exactly as it was.
C6_StopLeavesStoreAndReturnsUpstreamId ==
  Stopped => /\ ~ev.res.isContinued
             /\ ev.res.id = ev.up.id
             /\ ~ev.touched

\* The keys a request removes from the store before its call: in /api/chat
\* the entry its continueId names, in /generate none.
consumedKeys ==
  IF server = "chat" /\ ev.ncalls = 1 THEN {ev.req.continueId} ELSE {}

\* C6 as amended: on finish_reason "stop" the response has isContinued false
\* and the answering step creates and changes no entry; in /generate the id
\* is the upstream's and the request left the store exactly as it was; in
\* /api/chat the id is null, and all a request does to the store before its
\* call is to remove the entry its continueId names.
C6_StopCreatesNoEntry ==
  /\ Stopped =>
       /\ ~ev.res.isContinued
       /\ incompleteResponses = ev.pre
       /\ server = "generate" => (ev.res.id = ev.up.id /\ ~ev.touched)
       /\ server = "chat" => ev.res.id = Absent
  /\ ev.step = "receive" =>
       incompleteResponses =
         [k \in DOMAIN ev.pre \ consumedKeys |-> ev.pre[k]]

\* A complete response was returned with the upstream's id while the store
\* held an earlier entry, which it left as it was.
C6_Witness ==
  /\ Stopped
  /\ server = "generate"
  /\ DOMAIN incompleteResponses # {}
  /\ incompleteResponses = ev.pre
  /\ ev.res.id = ev.up.id

\* The upstream call of the last step's request failed.
Failed == Returned /\ ev.up.kind # "ok"

\* C7: when the upstream call fails the client receives the generic server
\* error "Error generating response" and the request leaves the store
\* unchanged.
C7_FailureGenericAndStoreUnchanged ==
  Failed => /\ ev.res.status = 500
            /\ ev.res.error = <<"Error generating response">>
            /\ ~ev.touched

\* The response the deployed handler sends for an upstream failure.
failureResponse(up) ==
  IF server = "generate" THEN generateResponse(up) ELSE chatResponse(up, Absent)

\* C8: the error response does not depend on the upstream error's message
\* text: the same failure with any other message text is answered alike.
C8_ErrorResponseIgnoresUpstreamMessage ==
  Failed => \A m \in ErrMessages :
              failureResponse([ev.up EXCEPT !.message = m]) = ev.res

\* Validation passes: /generate has an image or a non-empty array; /api/chat
\* has an accepted secret and a non-empty array of messages that each carry a
\* role and a content.
PassesValidation ==
  IF server = "generate"
  THEN \/ ev.req.image # NoImage
       \/ /\ ev.req.conversationHistory.kind = "array"
          /\ ev.req.conversationHistory.items # <<>>
  ELSE /\ ev.req.secret = EXTENSION_SECRET
       /\ ev.req.messages.kind = "array"
       /\ ev.req.messages.items # <<>>
       /\ \A i \in 1..Len(ev.req.messages.items) :
            LET m == ev.req.messages.items[i]
            IN  ~m.isnull /\ m.role # "" /\ m.content # <<>>

\* C9: each request causes at most one upstream call, exactly one when
\* validation passes and none when it fails, and no step after the call
\* settles issues another.
C9_ExactlyOneCallWhenValid ==
  /\ ev.ncalls <= 1
  /\ ev.step = "receive" => (ev.ncalls = 1 <=> PassesValidation)

\* C10: in the authenticated variant a request whose x-extension-secret
\* header is absent or differs from the configured secret is rejected with
\* 403 before any processing, whatever the configuration.
C10_BadSecretRejected ==
  ( /\ server = "chat"
    /\ ev.step = "receive"
    /\ (ev.req.secret = Undefined \/ ev.req.secret # EXTENSION_SECRET) )
  => /\ ev.res.status = 403
     /\ ev.ncalls = 0
     /\ incompleteResponses = ev.pre

\* C11: within one window at most max (100) requests of one address reach
\* the handler, and a request the limiter rejects is answered 429 without
\* validation, upstream call or change of the store.
C11_LimiterBeforeHandler ==
  /\ \A ip \in Ips : reached[ip] <= max
  /\ ev.step = "limited" =>
       /\ ev.res = TooManyRequests
       /\ ev.ncalls = 0
       /\ \A c \in inflight : c.rid # ev.rid
       /\ incompleteResponses = ev.pre

\* An address was turned away after max of its requests had reached the
\* handler in the window, the last of them leaving an entry in the store.
C11_Witness ==
  /\ ev.step = "limited"
  /\ \E ip \in Ips : reached[ip] = max /\ hits[ip] > max
  /\ DOMAIN incompleteResponses # {}

\* The trimmer has been called, and what its counter makes of a list.
Trimmed == trim.phase \in {"once", "twice"}
trimTokens(messages) ==
  IF server = "generate" THEN countTokens(messages) ELSE countTokensChat(messages)

\* C12: a list whose token count is within the budget is returned unchanged:
\* the same messages in the same order.
C12_TrimNoOpWithinBudget ==
  (Trimmed /\ trimTokens(trim.messages) <= trim.maxTokens)
    => trim.result = trim.messages

\* A list of several messages exactly at the budget came back unchanged.
C12_Witness ==
  /\ trim.phase = "once"
  /\ server = "generate"
  /\ Len(trim.messages) >= 2
  /\ countTokens(trim.messages) = trim.maxTokens
  /\ trim.result = trim.messages

\* C13: of a list of more than one message that exceeds the budget,
\* trimHistory returns a contiguous suffix, in the original order, of at
\* least one message.
C13_TrimHistoryKeepsSuffix ==
  ( /\ Trimmed
    /\ server = "generate"
    /\ Len(trim.messages) > 1
    /\ countTokens(trim.messages) > trim.maxTokens )
  => /\ IsSuffix(trim.result, trim.messages)
     /\ Len(trim.result) >= 1

\* A list of four messages lost its two oldest and then fitted the budget.
C13_Witness ==
  /\ trim.phase = "once"
  /\ server = "generate"
  /\ Len(trim.messages) = 4
  /\ trim.result = SubSeq(trim.messages, 3, 4)
  /\ countTokens(trim.result) <= trim.maxTokens
  /\ trim.result[1] # trim.messages[1]

\* C14: trimming the trimmed list again, with the same budget, returns it
\* unchanged.
C14_TrimIdempotent == trim.phase = "twice" => trim.again = trim.result

\* A conversation that was cut to its system message and two more, and still
\* exceeds the budget, came back unchanged from the second call.
C14_Witness ==
  /\ trim.phase = "twice"
  /\ server = "chat"
  /\ Len(trim.result) < Len(trim.messages)
  /\ countTokensChat(trim.result) > trim.maxTokens
  /\ trim.again = trim.result

\* C19: the trimmer does not modify the list passed to it: after the call
\* the caller's array has the length and the contents it had before.
C19_TrimLeavesArgument == Trimmed => trim.after = trim.messages

IsPrefix(a, b) == Len(a) <= Len(b) /\ a = SubSeq(b, 1, Len(a))

\* What a step leaves of the entry under key k: in /generate the entry with
\* at least the fragments it had, in /api/chat the entry as it was.
EntryKept(k) ==
  /\ k \in DOMAIN incompleteResponses'
  /\ IF server = "generate"
     THEN IsPrefix(incompleteResponses[k], incompleteResponses'[k])
     ELSE incompleteResponses'[k] = incompleteResponses[k]

\* C15 as claimed: an entry, once created, is never deleted: every step
\* leaves every entry in the store with at least the fragments it had.
C15_EntryNeverDeleted ==
  [][\A k \in DOMAIN incompleteResponses : EntryKept(k)]_vars

\* The step received a request that continues from entry k and went on to
\* the upstream call; the step stored a new entry when entry k was more
\* than one hour old.
ContinuedFrom(k) ==
  ev'.step = "receive" /\ ev'.ncalls = 1 /\ ev'.req.continueId = k
ExpiredAtStore(k) ==
  /\ ev'.step = "return" /\ ev'.up.kind = "ok" /\ ev'.up.finish = "length"
  /\ incompleteResponses[k].timestamp < now - OneHourMs

\* C15 as amended: in /generate an entry, once created, is never deleted and
\* never changed.  In /api/chat an entry is removed when a request continues
\* from it, before the upstream call, and when it is more than one hour old
\* at the time a later truncated response is stored; otherwise it stays as
\* it is.
C15_EntryKeptUnlessConsumedOrExpired ==
  [][\A k \in DOMAIN incompleteResponses :
       \/ EntryKept(k) /\ incompleteResponses'[k] = incompleteResponses[k]
       \/ server = "chat" /\ (ContinuedFrom(k) \/ ExpiredAtStore(k))]_vars

\* A truncated continuation was recorded under its own id and the entry it
\* continued from is still in the store, unchanged.
C15_Witness ==
  /\ server = "generate"
  /\ Succeeded
  /\ ev.res.isContinued
  /\ HasOwn(ev.pre, ev.req.continueId)
  /\ HasOwn(incompleteResponses, ev.req.continueId)
  /\ incompleteResponses[ev.req.continueId] = ev.pre[ev.req.continueId]
  /\ ev.res.id # ev.req.continueId

\* C16: when /generate answers a truncated completion, the entry under the
\* new response id is the fragments the store held under the request's
\* continueId (none when continueId is absent or no key of the store)
\* followed by the new partial text.
C16_EntryIsPriorThenPartial ==
  (server = "generate" /\ Succeeded /\ ev.res.isContinued) =>
    incompleteResponses[ev.res.id] =
      (IF ev.req.continueId \in DOMAIN ev.pre THEN ev.pre[ev.req.continueId] ELSE <<>>)
        \o <<ev.up.content>>

\* After one truncated continuation the entry holds the two fragments, the
\* earlier one first.
C16_Witness ==
  /\ server = "generate"
  /\ Succeeded
  /\ ev.res.isContinued
  /\ incompleteResponses[ev.res.id] = <<"part", "longpart">>
  /\ ev.pre[ev.req.continueId] = <<"part">>

\* Both watched requests have been answered; first and second in the order
\* their upstream calls settled.
BothAnswered == log.watch /\ Len(log.calls) = 2 /\ Len(log.returns) = 2
sentBy(rid) == CHOOSE c \in {log.calls[i] : i \in 1..Len(log.calls)} : c.rid = rid
answerTo(rid) == CHOOSE r \in {log.returns[i] : i \in 1..Len(log.returns)} : r.rid = rid

\* The two requests run one after the other, in the given order of their
\* rids, from the store the watch started with, each with the completion its
\* upstream call had: the outbound lists, the responses and the final store.
oneAfterTheOther(order) ==
  LET r1 == order[1]
      r2 == order[2]
      req1 == sentBy(r1).req
      req2 == sentBy(r2).req
      store1 == generateStore(log.store0, Call(r1, req1.continueId, <<>>, 1, FALSE, <<>>),
                              answerTo(r1).up)
      store2 == generateStore(store1, Call(r2, req2.continueId, <<>>, 1, FALSE, <<>>),
                              answerTo(r2).up)
  IN  [store |-> store2,
       out |-> (r1 :> outboundMessages(log.store0, req1)) @@
               (r2 :> outboundMessages(store1, req2)),
       res |-> (r1 :> generateResponse(answerTo(r1).up)) @@
               (r2 :> generateResponse(answerTo(r2).up))]

observed ==
  LET rids == {log.calls[i].rid : i \in 1..2}
  IN  [store |-> incompleteResponses,
       out |-> [r \in rids |-> sentBy(r).out],
       res |-> [r \in rids |-> answerTo(r).res]]

\* The upstream response ids of the two differ, and neither request's
\* continueId is the other's response id.
Unrelated ==
  LET a == log.returns[1]
      b == log.returns[2]
  IN  /\ (a.up.kind = "ok" /\ b.up.kind = "ok") => a.up.id # b.up.id
      /\ b.up.kind = "ok" => sentBy(a.rid).req.continueId # b.up.id
      /\ a.up.kind = "ok" => sentBy(b.rid).req.continueId # a.up.id

\* C17: two concurrent /generate requests with different upstream response
\* ids, neither continuing from the other's id, do not interfere: however
\* their steps interleave, the final store, both responses and both
\* outbound lists are those of the two requests run one after the other, in
\* either order.
C17_UnrelatedRequestsDoNotInterfere ==
  (BothAnswered /\ Unrelated) =>
    /\ observed = oneAfterTheOther(<<log.calls[1].rid, log.calls[2].rid>>)
    /\ observed = oneAfterTheOther(<<log.calls[2].rid, log.calls[1].rid>>)

\* Two truncated continuations of the same entry overlapped, the one received
\* first answered last, and each left its own entry beside the one continued.
C17_Witness ==
  /\ BothAnswered
  /\ Unrelated
  /\ log.returns[1].rid = log.calls[2].rid
  /\ \A i \in 1..2 : /\ log.returns[i].res.isContinued
                      /\ log.calls[i].req.continueId = 1
  /\ HasOwn(log.store0, 1)
  /\ Cardinality(DOMAIN incompleteResponses) = 3

\* Both requests were truncated and the upstream gave both the same id.
SameIdTruncated ==
  /\ BothAnswered
  /\ \A i \in 1..2 : log.returns[i].up.kind = "ok" /\ log.returns[i].up.finish = "length"
  /\ log.returns[1].up.id = log.returns[2].up.id

\* C18: when two concurrent truncated requests obtain the same response id,
\* the entry under that id is in the end the value of the request handled
\* last alone: the fragments of its continueId followed by its partial text,
\* with nothing of the other request's write merged in.
C18_LastWriterWins ==
  SameIdTruncated =>
    LET last == log.returns[2]
    IN  incompleteResponses[last.up.id] =
          priorFragments(log.store0, sentBy(last.rid).req.continueId)
            \o <<last.up.content>>

\* Entry i of the client's conversation as the claim maps it.
expectedMessage(entry) ==
  [role |-> IF entry.sender = "user" THEN "user" ELSE "assistant",
   content |-> entry.text]
expectedMessages(items) == [i \in 1..Len(items) |-> expectedMessage(items[i])]

\* The stored fragments a /generate request continues from, as messages.
continuedFragments ==
  IF Continuing THEN storedPartial ELSE <<>>

\* What is left, after trimming, of the client's conversation mapped entry
\* by entry and in order, followed by the spliced fragments.
MappedInOrder ==
  (server = "generate" /\ ev.req.image = NoImage) =>
    IsSuffix(ev.out, expectedMessages(ev.req.conversationHistory.items)
                       \o continuedFragments)

\* C20 as claimed: the client's conversation is mapped to the outbound
\* messages one-to-one and in order (sender 'user' to role 'user', any other
\* sender to 'assistant', content the entry's text), and every message of
\* every outbound request has role user or assistant.
C20_MappedAndRolesUserOrAssistant ==
  CallIssued =>
    /\ MappedInOrder
    /\ \A i \in 1..Len(ev.out) : ev.out[i].role \in {"user", "assistant"}

\* C20 as amended: /generate maps the client's conversation one-to-one and
\* in order (sender 'user' to role 'user', any other sender to 'assistant',
\* content the entry's text) and every message of its outbound requests has
\* role user or assistant; /api/chat sends the client's messages with the
\* role and content the client gave them, a system role included.
C20_MappedOrForwarded ==
  CallIssued =>
    /\ MappedInOrder
    /\ server = "generate" =>
         \A i \in 1..Len(ev.out) : ev.out[i].role \in {"user", "assistant"}
    /\ (server = "chat" /\ ~Continuing) =>
         /\ IsSuffix(afterSystem(ev.out), afterSystem(clientSupplied))
         /\ clientSupplied[1].role = "system" => ev.out[1] = clientSupplied[1]

\* A conversation of a user's and a bot's turn went out whole, the bot's
\* turn as an assistant message.
C20_Witness ==
  /\ CallIssued
  /\ server = "generate"
  /\ Len(ev.out) = 2
  /\ ev.req.conversationHistory.items[2].sender = "bot"
  /\ ev.out[2] = [role |-> "assistant", content |-> ev.req.conversationHistory.items[2].text]
  /\ ev.out[1].role = "user"

\* The single message an image payload stands for.
imageMessage == [role |-> "user", content |-> ev.req.image]

\* C22: a /generate request with an image payload is never answered 400,
\* whatever conversationHistory it also carries, and its outbound list is
\* the one user message holding the image, followed by the spliced fragments
\* when it continues (less what the trimmer removes from the front).
C22_ImageIsSingleUserMessage ==
  (server = "generate" /\ ev.step = "receive" /\ ev.req.image # NoImage) =>
    /\ ev.res.status # 400
    /\ CallIssued =>
         /\ IsSuffix(ev.out, <<imageMessage>> \o continuedFragments)
         /\ ~Continuing => ev.out = <<imageMessage>>

\* An image sent along with a conversation of one turn went out as the one
\* user message holding the image.
C22_Witness ==
  /\ server = "generate"
  /\ CallIssued
  /\ ev.req.image # NoImage
  /\ ev.req.conversationHistory.kind = "array"
  /\ ev.req.conversationHistory.items = <<Entry("user", "Hi")>>
  /\ ev.out = <<imageMessage>>

\* C23: the result of trimHistory is within the budget, or is exactly one
\* message, the most recent one of the list passed, unchanged.
C23_WithinBudgetOrLastMessage ==
  (Trimmed /\ server = "generate") =>
    \/ countTokens(trim.result) <= trim.maxTokens
    \/ /\ Len(trim.result) = 1
       /\ trim.result[1] = trim.messages[Len(trim.messages)]

\* A list of several messages was cut down to its last message, which alone
\* exceeds the budget.
C23_Witness ==
  /\ trim.phase = "once"
  /\ server = "generate"
  /\ Len(trim.messages) >= 3
  /\ trim.result = <<trim.messages[Len(trim.messages)]>>
  /\ countTokens(trim.result) > trim.maxTokens

\* What trimConversation was given and returned, without the leading system
\* message, and the messages it removed.
restGiven == afterSystem(trim.messages)
restReturned ==
  SubSeq(trim.result, Len(trim.messages) - Len(restGiven) + 1, Len(trim.result))
removedCount == Len(restGiven) - Len(restReturned)

\* A leading system message is kept, the rest is cut from the front two
\* messages at a time, and a pair is removed only while more than two
\* messages remain and the conversation is over the budget.
KeepsSystemDropsPairs ==
  /\ (trim.messages # <<>> /\ trim.messages[1].role = "system") =>
       (trim.result # <<>> /\ trim.result[1] = trim.messages[1])
  /\ Len(trim.result) >= Len(trim.messages) - Len(restGiven)
  /\ IsSuffix(restReturned, restGiven)
  /\ removedCount % 2 = 0
  /\ removedCount > 0 =>
       /\ Len(restReturned) + 2 > 2
       /\ countTokensChat(SubSeq(trim.messages, 1, Len(trim.messages) - Len(restGiven))
                           \o SubSeq(restGiven, removedCount - 1, Len(restGiven)))
            > MAX_TOKENS - RESPONSE_TOKENS

withoutContinueId == [ev.req EXCEPT !.continueId = Absent]
issuesCall(req) == ValidInput(req) /\ ~MapThrows(req)

\* C24: a /generate request whose continueId is no key of the store is
\* processed like the same request without continueId: it is answered or
\* sent on alike, with the same outbound list, and when its completion is
\* truncated the entry recorded is the new fragment alone.
C24_UnknownContinueIdIsIgnored ==
  /\ ( /\ server = "generate"
       /\ ev.step = "receive"
       /\ ~HasOwn(ev.pre, ev.req.continueId) )
     => /\ ev.ncalls = (IF issuesCall(withoutContinueId) THEN 1 ELSE 0)
        /\ ev.ncalls = 1 => ev.out = outboundMessages(ev.pre, withoutContinueId)
  /\ ( /\ server = "generate"
       /\ Succeeded
       /\ ev.res.isContinued
       /\ ev.req.spliced = <<>> )
     => incompleteResponses[ev.res.id] = <<ev.up.content>>

\* C26: every /generate request is answered 200, 400 or 500: a request that
\* has left the handler's first step is answered or has its upstream call
\* in flight, and the step after the call answers.
C26_EveryRequestAnswered ==
  /\ (server = "generate" /\ ev.step = "receive") =>
       \/ ev.res.status \in {400, 500}
       \/ \E c \in inflight : c.rid = ev.rid
  /\ (server = "generate" /\ ev.step = "return") =>
       ev.res.status \in {200, 500}

Resent ==
  /\ log.watch
  /\ Len(log.calls) = 2
  /\ Len(log.returns) = 1
  /\ ev.step = "receive"
  /\ ev.rid = log.calls[2].rid
  /\ log.returns[1].rid = log.calls[1].rid
  /\ log.returns[1].up.kind # "ok"
  /\ log.calls[2].req = log.calls[1].req

\* C21: a request sent again with the same body after its upstream call
\* failed is processed with the same outbound message list as the failed
\* attempt.
C21_ResentAfterFailureSendsSameList ==
  Resent => log.calls[2].out = log.calls[1].out

\* The last step received, and passed on to the upstream, the request a click
\* on "Continue Generating" sent.
ContinueCallIssued ==
  /\ CallIssued
  /\ \E f \in fetches : f.rid = ev.rid /\ f.origin = "continue" /\ f.state = "atServer"

\* The truncated text as the window holds it: the last message of the
\* conversationHistory sent, and as the store holds it: its last fragment.
windowCopy ==
  formatEntry(ev.req.conversationHistory.items[Len(ev.req.conversationHistory.items)])
storeCopy ==
  LET fragments == splicedFragments(ev.pre, ev.req)
  IN  [role |-> "assistant", content |-> fragments[Len(fragments)]]
BothCopiesSent ==
  /\ splicedFragments(ev.pre, ev.req) # <<>>
  /\ windowCopy.role = "assistant"
  /\ \E i, j \in DOMAIN ev.out :
        i < j /\ ev.out[i] = windowCopy /\ ev.out[j] = storeCopy

\* C28: when the chat window continues a truncated response, the list sent
\* to the upstream holds the truncated text once: the copy the window sends
\* as last assistant message and the copy the server takes from the store
\* are not both in it.
C28_TruncatedTextSentOnce ==
  ContinueCallIssued =>
    /\ ~BothCopiesSent
    /\ Cardinality({i \in DOMAIN ev.out : ev.out[i] = windowCopy}) = 1

lastMessage == alert.conversation[Len(alert.conversation)]

\* C29: "Continue Generating" is offered only when the last message of the
\* conversation is the assistant text of a truncated response and continueId
\* is the identifier of that response.
C29_OfferedOnlyForLastTruncated ==
  ContinueOffered =>
    /\ alert.conversation # <<>>
    /\ lastMessage.sender = "assistant"
    /\ lastTruncated # Absent
    /\ alert.continueId = lastTruncated

QueryWaiting ==
  /\ aiResponseAlertRef.root = "mounted"
  /\ alert.isLoading
  /\ alert.conversation # <<>>
  /\ lastMessage.sender = "user"
Answered ==
  /\ aiResponseAlertRef.root = "mounted"
  /\ ~alert.isLoading
  /\ alert.conversation # <<>>
  /\ lastMessage.sender = "assistant"

\* C30: whenever the window shows a user query with the loading indicator
\* set, the indicator is eventually cleared with an assistant message (an
\* answer or an error text) appended.
C30_LoadingEventuallyCleared == QueryWaiting ~> Answered

====
